---- MODULE Spec2Model ----
(***************************************************************************)
(* A model of typed-config-parser: the line normaliser (Parser.read), the  *)
(* structural parser (Parser.parse), the value evaluator (#eval and        *)
(* #evalOutputObject), the schema validator and the stringify engine       *)
(* (Stringify.toString).                                                   *)
(*                                                                         *)
(* JavaScript strings are sequences of one-character strings; Chars turns  *)
(* a literal into such a sequence.  A JavaScript value is a record         *)
(* [t |-> <its kind>, v |-> <its content>]; an object keeps its own        *)
(* properties as a sequence of <<key, value>> pairs in the order in which  *)
(* for-in enumerates them.                                                 *)
(***************************************************************************)
EXTENDS Integers, Sequences, FiniteSets, TLC

VARIABLES
    file,              \* Parser.read: `lines`, the input split on the line separator
    commentWith,       \* Parser.read: the list of comment markers
    keysWithSpaces,    \* ParserOptions.keysWithSpaces ("unset" when not given)
    validationSchema,  \* ReaderOptions.validationSchema (NoSchema when not given)
    aliases,           \* ParserOptions.aliases (NoAliases when not given)
    entryPoint,        \* what the caller calls: Parser.read(..).parse(..), or parse,
                       \* parseFileSync or parseFile of index.ts
    exists,            \* fs.existsSync(path), for the entry points that take a path
    reads,             \* the number of calls of Parser.read so far
    clearLines,        \* Parser.#lines
    pc,                \* position of the running operation
    pos,               \* eachRow / eachSections: the index of the next element, 0-based
    results,           \* Parser.parse: `results`
    useSection,        \* Parser.parse: `useSection` (<<>> is false)
    o,                 \* Parser.parse: `o`, the evaluated tree that parse returns
    thrown,            \* the exception that ended the operation, or NoError
    input,             \* #eval: its argument
    evaluated,         \* #eval: its result
    inserted,          \* the properties of the stringified tree, as the caller inserted them
    originalContent,   \* Stringify.#originalContent
    lines,             \* Stringify.toString: `lines`
    sections,          \* Stringify.toString: `sections`
    text               \* Stringify.toString: the returned string

vars == <<file, commentWith, keysWithSpaces, validationSchema, aliases, entryPoint,
          exists, reads, clearLines, pc, pos, results, useSection, o, thrown, input, evaluated, inserted,
          originalContent, lines, sections, text>>

parserVars == <<file, commentWith, keysWithSpaces, validationSchema, aliases,
                entryPoint, exists, reads, clearLines, results, useSection, o>>
\* what the caller hands over: the input and the options
callVars == <<file, commentWith, keysWithSpaces, validationSchema, aliases, entryPoint,
              exists>>
evalVars == <<input, evaluated>>
stringifyVars == <<inserted, originalContent, lines, sections, text>>

-----------------------------------------------------------------------------
(* Strings *)

Chars(s) == [i \in 1..Len(s) |-> SubSeq(s, i, i)]

Digits == {"0", "1", "2", "3", "4", "5", "6", "7", "8", "9"}

\* /\s/
IsSpace(c) == c \in {" ", "\t"}

SetMin(S) == CHOOSE x \in S : \A y \in S : x <= y
SetMax(S) == CHOOSE x \in S : \A y \in S : x >= y

\* String.prototype.trim
Trim(s) ==
    LET keep == {i \in 1..Len(s) : ~IsSpace(s[i])}
    IN  IF keep = {} THEN <<>> ELSE SubSeq(s, SetMin(keep), SetMax(keep))

\* String.prototype.indexOf, 0-based, -1 when `m` does not occur
IndexOf(s, m) ==
    LET at == {i \in 0..(Len(s) - Len(m)) : SubSeq(s, i + 1, i + Len(m)) = m}
    IN  IF at = {} THEN -1 ELSE SetMin(at)

\* String.prototype.slice(0, index)
SliceTo(s, index) == SubSeq(s, 1, index)

\* String.prototype.split(c) for a one-character separator
RECURSIVE Split(_, _)
Split(s, c) ==
    LET i == IndexOf(s, <<c>>)
    IN  IF i < 0 THEN <<s>>
        ELSE <<SubSeq(s, 1, i)>> \o Split(SubSeq(s, i + 2, Len(s)), c)

\* Array.prototype.join(c) of strings
RECURSIVE Join(_, _)
Join(parts, sep) ==
    IF parts = <<>> THEN <<>>
    ELSE IF Len(parts) = 1 THEN parts[1]
    ELSE parts[1] \o sep \o Join(Tail(parts), sep)

\* /\s+/.test(s)
HasSpace(s) == \E i \in 1..Len(s) : IsSpace(s[i])

DigitValue(c) ==
    CASE c = "0" -> 0 [] c = "1" -> 1 [] c = "2" -> 2 [] c = "3" -> 3
      [] c = "4" -> 4 [] c = "5" -> 5 [] c = "6" -> 6 [] c = "7" -> 7
      [] c = "8" -> 8 [] c = "9" -> 9
      [] c \in {"a", "A"} -> 10 [] c \in {"b", "B"} -> 11
      [] c \in {"c", "C"} -> 12 [] c \in {"d", "D"} -> 13
      [] c \in {"e", "E"} -> 14 [] c \in {"f", "F"} -> 15
      [] OTHER -> 99

DigitChar(d) == SubSeq("0123456789", d + 1, d + 1)

\* the decimal digits of a non-negative integer
RECURSIVE IntToChars(_)
IntToChars(n) ==
    IF n < 10 THEN <<DigitChar(n)>> ELSE IntToChars(n \div 10) \o <<DigitChar(n % 10)>>

\* the value of a string of digits in a radix
RECURSIVE DigitsValue(_, _)
DigitsValue(s, radix) ==
    IF s = <<>> THEN 0
    ELSE DigitsValue(SubSeq(s, 1, Len(s) - 1), radix) * radix + DigitValue(s[Len(s)])

-----------------------------------------------------------------------------
(* JavaScript values *)

Str(s) == [t |-> "string", v |-> s]
Bool(b) == [t |-> "boolean", v |-> b]
\* a number: NaN, or int + 0.frac (frac holds no trailing zero)
Num(n) == [t |-> "number", v |-> [nan |-> FALSE, int |-> n, frac |-> <<>>]]
Dec(n, f) == [t |-> "number", v |-> [nan |-> FALSE, int |-> n, frac |-> f]]
NaN == [t |-> "number", v |-> [nan |-> TRUE, int |-> 0, frac |-> <<>>]]
Arr(items) == [t |-> "array", v |-> items]
Obj(props) == [t |-> "object", v |-> props]
Null == [t |-> "null", v |-> <<>>]
Undefined == [t |-> "undefined", v |-> <<>>]
\* a member of Object.prototype, found by `in` and by a property read
Inherited == [t |-> "function", v |-> <<>>]

\* typeof
TypeOf(x) == IF x.t \in {"array", "object", "null"} THEN "object" ELSE x.t

\* Array.isArray
IsArray(x) == x.t = "array"

\* names that every plain object inherits from Object.prototype
ObjectPrototypeKeys == {Chars("toString"), Chars("constructor")}

\* an array index: the canonical decimal form of an integer
IsArrayIndex(k) ==
    /\ k # <<>>
    /\ \A i \in 1..Len(k) : k[i] \in Digits
    /\ (Len(k) > 1 => k[1] # "0")

OwnKeys(x) == [i \in 1..Len(x.v) |-> x.v[i][1]]

\* Object.prototype.hasOwnProperty.call(x, k)
HasOwn(x, k) == \E i \in 1..Len(x.v) : x.v[i][1] = k

\* k in x, for a plain object
In(k, x) == HasOwn(x, k) \/ k \in ObjectPrototypeKeys

\* x[k]
Get(x, k) ==
    IF HasOwn(x, k) THEN x.v[CHOOSE i \in 1..Len(x.v) : x.v[i][1] = k][2]
    ELSE IF k \in ObjectPrototypeKeys THEN Inherited
    ELSE Undefined

\* x[k] = val: an own property keeps its place; a new array index goes among the
\* array indices in ascending order, any other new key goes last
Put(x, k, val) ==
    IF HasOwn(x, k)
    THEN Obj([i \in 1..Len(x.v) |-> IF x.v[i][1] = k THEN <<k, val>> ELSE x.v[i]])
    ELSE IF IsArrayIndex(k)
    THEN LET before == {i \in 1..Len(x.v) :
                           /\ IsArrayIndex(x.v[i][1])
                           /\ DigitsValue(x.v[i][1], 10) < DigitsValue(k, 10)}
             n == Cardinality(before)
         IN  Obj(SubSeq(x.v, 1, n) \o <<(<<k, val>>)>> \o SubSeq(x.v, n + 1, Len(x.v)))
    ELSE Obj(Append(x.v, <<k, val>>))

\* delete x[k]
Delete(x, k) == Obj(SelectSeq(x.v, LAMBDA p : p[1] # k))

EmptyObject == Obj(<<>>)

-----------------------------------------------------------------------------
(* The value evaluator: Parser.#eval *)

\* /^[0-9]*\.?[0-9]*$/.test(s)
IsDecimalPattern(s) ==
    /\ \A i \in 1..Len(s) : s[i] \in Digits \cup {"."}
    /\ Cardinality({i \in 1..Len(s) : s[i] = "."}) <= 1

\* a string of digits without its trailing zeros
RECURSIVE StripTrailingZeros(_)
StripTrailingZeros(s) ==
    IF s # <<>> /\ s[Len(s)] = "0" THEN StripTrailingZeros(SubSeq(s, 1, Len(s) - 1)) ELSE s

\* Number(s), for the strings IsDecimalPattern admits: "" is 0 and "." is NaN
ToNumber(s) ==
    LET dot == IndexOf(s, <<".">>)
    IN  IF dot < 0 THEN Num(DigitsValue(s, 10))
        ELSE IF Len(s) = 1 THEN NaN
        ELSE Dec(DigitsValue(SubSeq(s, 1, dot), 10),
                 StripTrailingZeros(SubSeq(s, dot + 2, Len(s))))

\* parseInt(s, radix) of a string without sign or leading whitespace: a "0x"
\* prefix is skipped for radix 16 only, then the longest run of digits of the
\* radix is read; NaN when that run is empty
ParseInt(s, radix) ==
    LET body == IF radix = 16 /\ Len(s) >= 2 /\ s[1] = "0" /\ s[2] \in {"x", "X"}
                THEN SubSeq(s, 3, Len(s)) ELSE s
        bad == {i \in 1..Len(body) : DigitValue(body[i]) >= radix}
        n == IF bad = {} THEN Len(body) ELSE SetMin(bad) - 1
    IN  IF n = 0 THEN NaN ELSE Num(DigitsValue(SubSeq(body, 1, n), radix))

\* /^0x[0-9A-Fa-f]*$/, /^0b[01]*$/, /^0o[0-7]*$/
IsPrefixed(s, letter, radix) ==
    /\ Len(s) >= 2
    /\ s[1] = "0"
    /\ s[2] = letter
    /\ \A i \in 3..Len(s) : DigitValue(s[i]) < radix

\* BracketItems with a slip: an element that reads as a decimal number is coerced
BracketItemsCoerced(s) ==
    LET parts == Split(SubSeq(s, 2, Len(s) - 1), ",")
    IN  [i \in 1..Len(parts) |->
            IF IsDecimalPattern(Trim(parts[i])) THEN ToNumber(Trim(parts[i]))
            ELSE Str(Trim(parts[i]))]

\* input.slice(1, -1).split(',').map(item => item.trim())
BracketItems(s) ==
    LET parts == Split(SubSeq(s, 2, Len(s) - 1), ",")
    IN  [i \in 1..Len(parts) |-> Str(Trim(parts[i]))]

Eval(s) ==
    IF IsDecimalPattern(s)
    THEN [type |-> "number", value |-> ToNumber(s)]
    ELSE IF s \in {Chars("true"), Chars("false")}
    THEN [type |-> "boolean", value |-> Bool(s = Chars("true"))]
    ELSE IF s # <<>> /\ s[1] = "[" /\ s[Len(s)] = "]"
    THEN [type |-> "array", value |-> Arr(BracketItems(s))]
    ELSE IF IsPrefixed(s, "x", 16)
    THEN [type |-> "number", value |-> ParseInt(s, 16)]
    ELSE IF IsPrefixed(s, "b", 2)
    THEN [type |-> "number", value |-> ParseInt(s, 2)]
    ELSE IF IsPrefixed(s, "o", 8)
    THEN [type |-> "number", value |-> ParseInt(s, 8)]
    ELSE [type |-> "string", value |-> Str(s)]


-----------------------------------------------------------------------------
(* The line normaliser: Parser.read *)

\* line.split('').some(char => commentWith.includes(char))
HasComments(line, markers) ==
    \E i \in 1..Len(line) : \E m \in 1..Len(markers) : markers[m] = <<line[i]>>

\* eachComment(n, p) on currentLine: the lines it pushes to clearLines.  It stops
\* (pos = Infinity - 1) at the first marker whose cut leaves no marker character.
RECURSIVE EachComment(_, _, _)
EachComment(currentLine, markers, p) ==
    IF p > Len(markers) THEN <<>>
    ELSE LET index == IndexOf(currentLine, markers[p])
             cut == SliceTo(currentLine, index)
         IN  IF index > -1
             THEN IF ~HasComments(cut, markers)
                  THEN IF Len(Trim(cut)) > 0 THEN <<cut>> ELSE <<>>
                  ELSE EachComment(cut, markers, p + 1)
             ELSE EachComment(currentLine, markers, p + 1)

\* one turn of eachLine: the lines that `line` adds to clearLines
EachLine(line, markers) ==
    IF ~HasComments(line, markers) /\ Len(Trim(line)) > 0
    THEN <<Trim(line)>>
    ELSE EachComment(line, markers, 1)

\* eachLine over all the lines, then clearLines.map(item => item.trim())
RECURSIVE ClearLines(_, _)
ClearLines(rawLines, markers) ==
    IF rawLines = <<>> THEN <<>>
    ELSE LET kept == EachLine(Head(rawLines), markers)
         IN  [i \in 1..Len(kept) |-> Trim(kept[i])] \o ClearLines(Tail(rawLines), markers)

-----------------------------------------------------------------------------
(* The structural parser: Parser.parse, one row of eachRow *)

NoError == [type |-> "none", message |-> "", line |-> 0, prop |-> <<>>]
SyntaxError(message, line) ==
    [type |-> "SyntaxError", message |-> message, line |-> line, prop |-> <<>>]
TypeError(message, prop) ==
    [type |-> "TypeError", message |-> message, line |-> 0, prop |-> prop]
ReferenceError(message) ==
    [type |-> "ReferenceError", message |-> message, line |-> 0, prop |-> <<>>]

\* /^\[(.*)\]$/.test(row)
IsSectionRow(row) == Len(row) >= 2 /\ row[1] = "[" /\ row[Len(row)] = "]"

\* sectionRegex.exec(row)[1].trim()
SectionName(row) == Trim(SubSeq(row, 2, Len(row) - 1))

\* the three branches of processLine on one scope (results or results[useSection])
Assign(scope, key, value) ==
    IF In(key, scope) /\ ~IsArray(Get(scope, key))
    THEN Put(scope, key, Arr(<<Get(scope, key), Str(value)>>))
    ELSE IF In(key, scope) /\ IsArray(Get(scope, key))
    THEN Put(scope, key, Arr(Append(Get(scope, key).v, Str(value))))
    ELSE Put(scope, key, Str(value))

\* ProcessLine with a slip: the assignment goes to the top level whatever section
\* is active
ProcessLineAtTopLevel(res, section, key, value) == Assign(res, key, value)

\* processLine: !useSection is true of false, modelled as the empty string
ProcessLine(res, section, key, value) ==
    IF section = <<>>
    THEN Assign(res, key, value)
    ELSE Put(res, section, Assign(Get(res, section), key, value))

\* SectionRow with a slip in the "ignore" case: the ignored header still becomes
\* the active section
SectionRowIgnoreSwitches(res, section, row, policy, p) ==
    LET name == SectionName(row)
        create == [results |-> Put(res, name, EmptyObject), useSection |-> name,
                   thrown |-> NoError]
        keep == [results |-> res, useSection |-> section, thrown |-> NoError]
    IN  IF Eval(name).type = "number"
        THEN [keep EXCEPT !.thrown =
                 SyntaxError("Section name cannot be a number.", p + 1)]
        ELSE IF HasSpace(name)
        THEN CASE policy = "allow" -> create
               [] policy = "ignore" -> [keep EXCEPT !.useSection = name]
               [] OTHER -> [keep EXCEPT !.thrown =
                               SyntaxError("Section name cannot contain spaces.", p + 1)]
        ELSE create

\* SectionRow with a slip: a header that names an existing entry makes it the
\* active section and keeps what it holds
SectionRowKeepsEntry(res, section, row, policy, p) ==
    LET name == SectionName(row)
        create == [results |-> IF HasOwn(res, name) THEN res
                               ELSE Put(res, name, EmptyObject),
                   useSection |-> name, thrown |-> NoError]
        keep == [results |-> res, useSection |-> section, thrown |-> NoError]
    IN  IF Eval(name).type = "number"
        THEN [keep EXCEPT !.thrown =
                 SyntaxError("Section name cannot be a number.", p + 1)]
        ELSE IF HasSpace(name)
        THEN CASE policy = "allow" -> create
               [] policy = "ignore" -> keep
               [] OTHER -> [keep EXCEPT !.thrown =
                               SyntaxError("Section name cannot contain spaces.", p + 1)]
        ELSE create

\* the section-header branch of eachRow
SectionRow(res, section, row, policy, p) ==
    LET name == SectionName(row)
        create == [results |-> Put(res, name, EmptyObject), useSection |-> name,
                   thrown |-> NoError]
        keep == [results |-> res, useSection |-> section, thrown |-> NoError]
    IN  IF Eval(name).type = "number"
        THEN [keep EXCEPT !.thrown =
                 SyntaxError("Section name cannot be a number.", p + 1)]
        ELSE IF HasSpace(name)
        THEN CASE policy = "allow" -> create
               [] policy = "ignore" -> keep
               [] OTHER -> [keep EXCEPT !.thrown =
                               SyntaxError("Section name cannot contain spaces.", p + 1)]
        ELSE create

\* the key=value branch of eachRow
KeyRow(res, section, row, policy, p) ==
    LET parts == Split(row, "=")
        key == Trim(parts[1])
        value == Trim(parts[2])
        keep == [results |-> res, useSection |-> section, thrown |-> NoError]
        assign == [keep EXCEPT !.results = ProcessLine(res, section, key, value)]
    IN  IF IndexOf(row, <<"=">>) < 0
        THEN [keep EXCEPT !.thrown = SyntaxError("Expected a key-value pair.", p + 1)]
        ELSE IF Eval(key).type = "number"
        THEN [keep EXCEPT !.thrown = SyntaxError("Key cannot be a number.", p + 1)]
        ELSE IF HasSpace(key)
        THEN CASE policy = "allow" -> assign
               [] policy = "ignore" -> keep
               [] OTHER -> [keep EXCEPT !.thrown =
                               SyntaxError("Key cannot contain spaces.", p + 1)]
        ELSE assign

\* one turn of eachRow at position p (0-based)
EachRow(res, section, row, policy, p) ==
    IF IsSectionRow(row)
    THEN SectionRow(res, section, row, policy, p)
    ELSE KeyRow(res, section, row, policy, p)

-----------------------------------------------------------------------------
(* applyAliases *)

NoAliases == Undefined

\* the property key that object[aliases[prop]] writes: the alias when prop is an
\* own property of the table, else the text of the function that prop names in
\* Object.prototype
AliasKey(table, prop) ==
    IF HasOwn(table, prop) THEN Get(table, prop).v
    ELSE Chars("function ")
             \o (IF prop = Chars("constructor") THEN Chars("Object") ELSE prop)
             \o Chars("() { [native code] }")

\* applyAliases(object, aliases).  for-in visits the keys the object has when the
\* loop starts, in enumeration order, and skips a key that was deleted before
\* its turn; a key added by the loop is not visited.  An array is walked too
\* (typeof is 'object'); none of its indices is `in` a table without index keys,
\* so it comes back as it was.
RECURSIVE ApplyAliases(_, _)
ApplyAliases(object, table) ==
    IF object.t # "object" THEN object
    ELSE LET keys == OwnKeys(object)
             Turn(obj, prop) ==
                 LET walked == IF TypeOf(Get(obj, prop)) = "object"
                               THEN Put(obj, prop, ApplyAliases(Get(obj, prop), table))
                               ELSE obj
                 IN  IF ~HasOwn(obj, prop) THEN obj
                     ELSE IF ~In(prop, table) THEN walked
                     ELSE Delete(Put(walked, AliasKey(table, prop), Get(walked, prop)),
                                 prop)
             RECURSIVE Visit(_, _)
             Visit(obj, i) ==
                 IF i > Len(keys) THEN obj ELSE Visit(Turn(obj, keys[i]), i + 1)
         IN  Visit(object, 1)

-----------------------------------------------------------------------------
(* Parser.#evalOutputObject *)

\* for-in over a string visits its indices; over an inherited function, nothing
RECURSIVE EvalOutputObject(_)
EvalOutputObject(obj) ==
    IF obj.t = "string"
    THEN Obj([i \in 1..Len(obj.v) |->
                 <<IntToChars(i - 1), Eval(<<obj.v[i]>>).value>>])
    ELSE IF obj.t = "object"
    THEN Obj([i \in 1..Len(obj.v) |->
                 LET prop == obj.v[i][1]
                     val == obj.v[i][2]
                 IN  IF IsArray(val)
                     THEN <<prop, Arr([j \in 1..Len(val.v) |-> EvalOutputObject(val.v[j])])>>
                     ELSE IF TypeOf(val) = "object"
                     THEN <<prop, EvalOutputObject(val)>>
                     ELSE <<prop, Eval(val.v).value>>])
    ELSE EmptyObject


-----------------------------------------------------------------------------
(* The schema validator: validateSchema in Parser.parse *)

Range(f) == {f[i] : i \in DOMAIN f}

Letters == Range(Chars("abcdefghijklmnopqrstuvwxyzABCDEFGHIJKLMNOPQRSTUVWXYZ"))

\* obj[prop] and hasOwnProperty for the values validateSchema can be handed:
\* a plain object, or an array (own properties: its indices and length)
IndexOfKey(k) == DigitsValue(k, 10) + 1

HasOwnProp(x, k) ==
    IF IsArray(x) THEN (IsArrayIndex(k) /\ IndexOfKey(k) <= Len(x.v)) \/ k = Chars("length")
    ELSE HasOwn(x, k)

Prop(x, k) ==
    IF IsArray(x)
    THEN IF IsArrayIndex(k) /\ IndexOfKey(k) <= Len(x.v) THEN x.v[IndexOfKey(k)]
         ELSE IF k = Chars("length") THEN Num(Len(x.v))
         ELSE Undefined
    ELSE Get(x, k)

\* [^<>()[\]\\.,;:\s@"]+(\.[^<>()[\]\\.,;:\s@"]+)*
EmailAtoms(s) ==
    LET parts == Split(s, ".")
        special == {"<", ">", "(", ")", "[", "]", "\\", ".", ",", ";", ":", "@", "\""}
    IN  \A i \in 1..Len(parts) :
            /\ parts[i] # <<>>
            /\ \A j \in 1..Len(parts[i]) :
                   parts[i][j] \notin special /\ ~IsSpace(parts[i][j])

\* \[[0-9]{1,3}\.[0-9]{1,3}\.[0-9]{1,3}\.[0-9]{1,3}\]
EmailAddressLiteral(s) ==
    /\ Len(s) >= 2 /\ s[1] = "[" /\ s[Len(s)] = "]"
    /\ LET parts == Split(SubSeq(s, 2, Len(s) - 1), ".")
       IN  /\ Len(parts) = 4
           /\ \A i \in 1..4 : /\ Len(parts[i]) \in 1..3
                              /\ \A j \in 1..Len(parts[i]) : parts[i][j] \in Digits

\* ([a-zA-Z\-0-9]+\.)+[a-zA-Z]{2,}
EmailDomain(s) ==
    LET parts == Split(s, ".")
        n == Len(parts)
    IN  /\ n >= 2
        /\ \A i \in 1..(n - 1) :
               /\ parts[i] # <<>>
               /\ \A j \in 1..Len(parts[i]) : parts[i][j] \in Letters \cup Digits \cup {"-"}
        /\ Len(parts[n]) >= 2
        /\ \A j \in 1..Len(parts[n]) : parts[n][j] \in Letters

\* the e-mail regular expression: (atoms | ".+") @ (address literal | domain)
IsEmail(s) ==
    \E at \in 1..Len(s) :
        /\ s[at] = "@"
        /\ LET local == SubSeq(s, 1, at - 1)
               domain == SubSeq(s, at + 1, Len(s))
           IN  /\ \/ EmailAtoms(local)
                  \/ Len(local) >= 3 /\ local[1] = "\"" /\ local[Len(local)] = "\""
               /\ EmailAddressLiteral(domain) \/ EmailDomain(domain)

\* new URL(s) succeeds: s starts with a scheme, and a special scheme is followed
\* by a host (the part of the URL parser that the strings of this model reach)
IsUrl(s) ==
    LET colon == IndexOf(s, <<":">>)
        scheme == SubSeq(s, 1, colon)
        rest == SubSeq(s, colon + 2, Len(s))
        host == SelectSeq(rest, LAMBDA c : c \notin {"/", "\\"})
    IN  /\ colon >= 1
        /\ scheme[1] \in Letters
        /\ \A i \in 1..Len(scheme) : scheme[i] \in Letters \cup Digits \cup {"+", "-", "."}
        /\ (scheme \in {Chars("http"), Chars("https"), Chars("ws"), Chars("wss"),
                        Chars("ftp")} => host # <<>>)

\* /^[a-f0-9]*$/
IsLowerHex(s) == \A i \in 1..Len(s) : s[i] \in Digits \cup {"a", "b", "c", "d", "e", "f"}

\* the check of a present or absent value against schema[prop][0]
KindError(kind, val, prop) ==
    IF IsArray(kind)
    THEN IF TypeOf(val) # "string" THEN TypeError("must be a string", prop)
         ELSE IF val \notin Range(kind.v) THEN TypeError("must be one of", prop)
         ELSE NoError
    ELSE CASE kind.v = Chars("email") ->
                IF TypeOf(val) # "string" \/ ~IsEmail(val.v)
                THEN TypeError("must be a valid email", prop) ELSE NoError
           [] kind.v = Chars("url") ->
                IF TypeOf(val) # "string" \/ ~IsUrl(val.v)
                THEN TypeError("must be a valid URL", prop) ELSE NoError
           [] kind.v = Chars("hex") ->
                IF TypeOf(val) # "string" \/ ~IsLowerHex(val.v)
                THEN TypeError("must be a valid hexadecimal number", prop) ELSE NoError
           [] kind.v = Chars("string") ->
                IF TypeOf(val) # "string"
                THEN TypeError("must be a string", prop) ELSE NoError
           [] kind.v = Chars("number") ->
                IF TypeOf(val) # "number" \/ val.v.nan
                THEN TypeError("must be a number", prop) ELSE NoError
           [] kind.v = Chars("array") ->
                IF ~IsArray(val)
                THEN TypeError("must be an array", prop) ELSE NoError
           [] kind.v = Chars("boolean") ->
                IF TypeOf(val) # "boolean"
                THEN TypeError("must be a boolean", prop) ELSE NoError
           [] kind.v = Chars("section-header") ->
                IF TypeOf(val) # "object"
                THEN TypeError("must be the header name of a section", prop) ELSE NoError
           [] OTHER -> NoError

\* the Array.isArray(schema[prop]) branch: a (kind, required) entry
LeafError(obj, prop, entry) ==
    IF ~HasOwnProp(obj, prop) /\ entry.v[2] = Bool(TRUE)
    THEN TypeError("is required", prop)
    ELSE KindError(entry.v[1], Prop(obj, prop), prop)

\* validateSchema(obj, schema): the first error in for-in order, or NoError
RECURSIVE ValidateSchema(_, _)
ValidateSchema(obj, schema) ==
    LET PropError(i) ==
            LET prop == schema.v[i][1]
                entry == schema.v[i][2]
            IN  IF TypeOf(entry) = "object" /\ ~IsArray(entry)
                THEN IF TypeOf(Prop(obj, prop)) # "object"
                     THEN TypeError("must be an section", prop)
                     ELSE ValidateSchema(Prop(obj, prop), entry)
                ELSE IF IsArray(entry) THEN LeafError(obj, prop, entry)
                ELSE NoError
        failing == {i \in 1..Len(schema.v) : PropError(i) # NoError}
    IN  IF failing = {} THEN NoError ELSE PropError(SetMin(failing))

NoSchema == Undefined


-----------------------------------------------------------------------------
(* Bounds and inputs *)

\* the longest input, in lines
MaxLines == 3

\* every input of at most n lines drawn from a set of lines
Files(lineSet, n) == UNION {[1..k -> lineSet] : k \in 0..n}

\* section headers, assignments, repeated keys, names with whitespace, numeric
\* names, a line without '=', a blank line and a comment line
ParseLines ==
    {Chars(""), Chars("; c"), Chars("a=1"), Chars("a=x"), Chars("[s]"),
     Chars("[s t]"), Chars("a b=2"), Chars("7=1"), Chars("foo"), Chars("[7]")}

Policies == {"unset", "error", "ignore", "allow"}

-----------------------------------------------------------------------------
(* Parser.read(input, options).parse(options) *)

IdleEval == input = <<>> /\ evaluated = [type |-> "none", value |-> Undefined]

IdleStringify ==
    /\ inserted = <<>>
    /\ originalContent = EmptyObject
    /\ lines = <<>>
    /\ sections = <<>>
    /\ text = <<>>

IdleParser ==
    /\ file = <<>>
    /\ commentWith = <<Chars(";")>>
    /\ keysWithSpaces = "unset"
    /\ validationSchema = NoSchema
    /\ aliases = NoAliases
    /\ entryPoint = "Parser.read"
    /\ exists = TRUE
    /\ reads = 0
    /\ clearLines = <<>>
    /\ results = EmptyObject
    /\ useSection = <<>>
    /\ o = EmptyObject

EntryPoints == {"Parser.read", "parse", "parseFileSync", "parseFile"}

\* the options that index.ts hands to Parser.read: { commentWith } and nothing else
ReaderOptions ==
    [commentWith |-> commentWith,
     validationSchema |-> IF entryPoint = "Parser.read" THEN validationSchema
                          ELSE Undefined]

InitCall(files, markerLists, policies, schemas, aliasTables, entryPoints, existence) ==
    /\ file \in files
    /\ commentWith \in markerLists
    /\ keysWithSpaces \in policies
    /\ validationSchema \in schemas
    /\ aliases \in aliasTables
    /\ entryPoint \in entryPoints
    /\ exists \in existence
    /\ reads = 0
    /\ clearLines = <<>>
    /\ pc = "read"
    /\ pos = 0
    /\ results = EmptyObject
    /\ useSection = <<>>
    /\ o = EmptyObject
    /\ thrown = NoError
    /\ IdleEval
    /\ IdleStringify

\* Parser.read(input, {commentWith, validationSchema}).parse({keysWithSpaces})
InitParser(files, markerLists, policies, schemas) ==
    /\ file \in files
    /\ commentWith \in markerLists
    /\ keysWithSpaces \in policies
    /\ validationSchema \in schemas
    /\ aliases = NoAliases
    /\ entryPoint = "Parser.read"
    /\ exists = TRUE
    /\ reads = 0
    /\ clearLines = <<>>
    /\ pc = "read"
    /\ pos = 0
    /\ results = EmptyObject
    /\ useSection = <<>>
    /\ o = EmptyObject
    /\ thrown = NoError
    /\ IdleEval
    /\ IdleStringify

\* parseFile and parseFileSync give up on a path that does not exist; otherwise
\* Parser.read: the whole of eachLine, and the constructor
Read ==
    /\ pc = "read"
    /\ IF entryPoint \in {"parseFile", "parseFileSync"} /\ ~exists
       THEN /\ thrown' = ReferenceError("Failed to find file")
            /\ pc' = "error"
            /\ UNCHANGED <<clearLines, reads>>
       ELSE /\ clearLines' = ClearLines(file, ReaderOptions.commentWith)
            /\ reads' = reads + 1
            /\ pc' = "parse"
            /\ thrown' = thrown
    /\ UNCHANGED <<callVars, pos, results, useSection, o, evalVars, stringifyVars>>

\* Parser.parse: one turn of eachRow
ParseRow ==
    /\ pc = "parse"
    /\ pos <= Len(clearLines) - 1
    /\ LET step == EachRow(results, useSection, clearLines[pos + 1], keysWithSpaces, pos)
       IN  /\ results' = step.results
           /\ useSection' = step.useSection
           /\ thrown' = step.thrown
           /\ pc' = IF step.thrown = NoError THEN "parse" ELSE "error"
           /\ pos' = IF step.thrown = NoError THEN pos + 1 ELSE pos
    /\ UNCHANGED <<callVars, reads, clearLines, o, evalVars, stringifyVars>>

\* Parser.parse after eachRow: applyAliases on `results` when aliases were given,
\* #evalOutputObject, then validateSchema when the parser holds a schema
ParseReturn ==
    /\ pc = "parse"
    /\ pos > Len(clearLines) - 1
    /\ results' = IF aliases # NoAliases THEN ApplyAliases(results, aliases) ELSE results
    /\ o' = EvalOutputObject(results')
    /\ thrown' = IF ReaderOptions.validationSchema = NoSchema THEN NoError
                 ELSE ValidateSchema(o', ReaderOptions.validationSchema)
    /\ pc' = IF thrown' = NoError THEN "done" ELSE "error"
    /\ UNCHANGED <<callVars, reads, clearLines, pos, useSection, evalVars,
                   stringifyVars>>

Init == InitParser(Files(ParseLines, MaxLines), {<<Chars(";")>>}, Policies, {NoSchema})

Next == Read \/ ParseRow \/ ParseReturn

Spec == Init /\ [][Next]_vars


-----------------------------------------------------------------------------
(* What the input says, read off the kept lines without running the parser *)

\* the key and the raw value of a key=value row
RowKey(row) == Trim(Split(row, "=")[1])
RowValue(row) == Trim(Split(row, "=")[2])

IsKeyRow(row) == ~IsSectionRow(row) /\ IndexOf(row, <<"=">>) >= 0

\* a row whose section name or key contains whitespace
HasSpaceName(row) ==
    \/ IsSectionRow(row) /\ HasSpace(SectionName(row))
    \/ IsKeyRow(row) /\ HasSpace(RowKey(row))

\* a row that the whitespace policy lets through
Accepted(row) == ~HasSpaceName(row) \/ keysWithSpaces = "allow"

\* the positions (1-based) of the accepted section headers among the kept lines
HeaderPositions == {i \in 1..Len(clearLines) : IsSectionRow(clearLines[i]) /\ Accepted(clearLines[i])}

\* the raw values assigned to `key`, in order, by the rows at positions from..to
AssignedValues(key, from, to) ==
    LET at == {i \in from..to : /\ IsKeyRow(clearLines[i])
                                /\ Accepted(clearLines[i])
                                /\ RowKey(clearLines[i]) = key}
        RECURSIVE Ordered(_)
        Ordered(S) == IF S = {} THEN <<>>
                      ELSE <<RowValue(clearLines[SetMin(S)])>> \o Ordered(S \ {SetMin(S)})
    IN  Ordered(at)

\* the array the claim promises for a sequence of raw values
PromotedArray(values) == Arr([i \in 1..Len(values) |-> Eval(values[i]).value])

AssignedKeys(from, to) ==
    {RowKey(clearLines[i]) : i \in {j \in from..to : IsKeyRow(clearLines[j])}}

\* for each kept line, the 1-based number of the line of the input it comes from
RECURSIVE OriginsFrom(_)
OriginsFrom(n) ==
    IF n > Len(file) THEN <<>>
    ELSE [i \in 1..Len(EachLine(file[n], commentWith)) |-> n] \o OriginsFrom(n + 1)

-----------------------------------------------------------------------------
(* Claims about Parser.read and Parser.parse *)

\* C1: a key assigned n >= 2 times in one scope (the top level, or the section
\* that is active at the end of the input) is returned as the array of its n
\* raw values, each evaluated by #eval, in assignment order.
C1_DuplicateKeyPromotion ==
    pc = "done" =>
        LET firstHeader == IF HeaderPositions = {} THEN Len(clearLines) + 1
                           ELSE SetMin(HeaderPositions)
            lastHeader == IF HeaderPositions = {} THEN 0 ELSE SetMax(HeaderPositions)
        IN  /\ \A key \in AssignedKeys(1, firstHeader - 1) :
                   LET values == AssignedValues(key, 1, firstHeader - 1)
                       redeclared == \E h \in HeaderPositions :
                                         SectionName(clearLines[h]) = key
                   IN  (Len(values) >= 2 /\ ~redeclared)
                           => Get(o, key) = PromotedArray(values)
            /\ lastHeader > 0 =>
                   \A key \in AssignedKeys(lastHeader + 1, Len(clearLines)) :
                       LET values == AssignedValues(key, lastHeader + 1, Len(clearLines))
                       IN  Len(values) >= 2 =>
                               Get(Get(o, SectionName(clearLines[lastHeader])), key)
                                   = PromotedArray(values)

\* C4: a SyntaxError cites the 1-based number, in the input given to read, of the
\* line that raised it.
C4_SyntaxErrorCitesInputLine ==
    thrown.type = "SyntaxError" => thrown.line = OriginsFrom(1)[pos + 1]


\* the scope that a key=value row writes to: the active section, or the top level
ActiveScope(res, section) == IF section = <<>> THEN res ELSE Get(res, section)

AllKeys(a, b) == Range(OwnKeys(a)) \cup Range(OwnKeys(b))

\* C6: a row whose key or section name contains whitespace raises a SyntaxError
\* under "error" or no policy; under "ignore" it leaves results and the active
\* section as they were; under "allow" it does what a row does whose name has no
\* whitespace: a header makes its name an empty section and the active one, an
\* assignment sets, promotes or appends its key in the active scope, and nothing
\* else changes.
C6_WhitespacePolicy ==
    [][(pc = "parse" /\ pos < Len(clearLines) /\ HasSpaceName(clearLines[pos + 1])) =>
        LET row == clearLines[pos + 1]
            name == SectionName(row)
            key == RowKey(row)
            before == ActiveScope(results, useSection)
            after == ActiveScope(results', useSection')
            old == Get(before, key)
            written == IF ~HasOwn(before, key) THEN Str(RowValue(row))
                       ELSE IF IsArray(old) THEN Arr(Append(old.v, Str(RowValue(row))))
                       ELSE Arr(<<old, Str(RowValue(row))>>)
        IN  CASE keysWithSpaces \in {"error", "unset"} ->
                   /\ pc' = "error"
                   /\ thrown'.type = "SyntaxError"
              [] keysWithSpaces = "ignore" ->
                   /\ pc' = "parse"
                   /\ thrown' = NoError
                   /\ results' = results
                   /\ useSection' = useSection
              [] keysWithSpaces = "allow" /\ IsSectionRow(row) ->
                   /\ pc' = "parse"
                   /\ thrown' = NoError
                   /\ useSection' = name
                   /\ Get(results', name) = EmptyObject
                   /\ \A k \in AllKeys(results, results') \ {name} :
                          HasOwn(results', k) /\ Get(results', k) = Get(results, k)
              [] keysWithSpaces = "allow" /\ ~IsSectionRow(row) ->
                   /\ pc' = "parse"
                   /\ thrown' = NoError
                   /\ useSection' = useSection
                   /\ Get(after, key) = written
                   /\ \A k \in AllKeys(before, after) \ {key} :
                          HasOwn(after, k) /\ Get(after, k) = Get(before, k)
                   /\ \A k \in AllKeys(results, results')
                                 \ (IF useSection = <<>> THEN {key} ELSE {useSection}) :
                          HasOwn(results', k) /\ Get(results', k) = Get(results, k)
    ]_vars

\* an ignored header "[s t]" after "[s]": the later key went to section s
C6_Witness ==
    /\ keysWithSpaces = "ignore"
    /\ clearLines = <<Chars("[s]"), Chars("[s t]"), Chars("a=1")>>
    /\ pc = "done"
    /\ o = Obj(<< <<Chars("s"), Obj(<< <<Chars("a"), Num(1)>> >>)>> >>)


-----------------------------------------------------------------------------
(* The value evaluator on its own: #eval(input) for every short token *)

\* the longest token, in characters
MaxTokenLen == 4

TokenChars == {"0", "1", "7", "F", "x", "b", "o", "[", "]", ",", " "}

Tokens == UNION {[1..k -> TokenChars] : k \in 0..MaxTokenLen}

\* some longer bracket literals
BracketTokens == {Chars("[1, 7]"), Chars("[true,0x1F]"), Chars("[ 0b1 ,,x ]")}

InitEval ==
    /\ input \in Tokens \cup BracketTokens
    /\ evaluated = [type |-> "none", value |-> Undefined]
    /\ pc = "eval"
    /\ pos = 0
    /\ thrown = NoError
    /\ IdleParser
    /\ IdleStringify

EvalInput ==
    /\ pc = "eval"
    /\ evaluated' = Eval(input)
    /\ pc' = "done"
    /\ UNCHANGED <<input, pos, thrown, parserVars, stringifyVars>>

NextEval == EvalInput

SpecEval == InitEval /\ [][NextEval]_vars

\* the digits of a token after its two-character prefix
PrefixedDigits(s) == SubSeq(s, 3, Len(s))

\* C2: a token 0x<hex digits>, 0b<binary digits> or 0o<octal digits> with at least
\* one digit evaluates to the number that the digits denote in base 16, 2 or 8.
C2_PrefixedLiterals ==
    pc = "done" =>
        \A form \in {<<"x", 16>>, <<"b", 2>>, <<"o", 8>>} :
            (IsPrefixed(input, form[1], form[2]) /\ Len(input) >= 3) =>
                evaluated = [type |-> "number",
                             value |-> Num(DigitsValue(PrefixedDigits(input), form[2]))]

\* the places of the commas of a string, with the places just before its first
\* and just after its last character
Cuts(s) == {0, Len(s) + 1} \cup {i \in 1..Len(s) : s[i] = ","}

\* the i-th smallest member of a set of numbers
NthOf(S, i) == CHOOSE x \in S : Cardinality({y \in S : y < x}) = i - 1

\* C14: a token that starts with '[' and ends with ']' evaluates to an array: one
\* element for each comma-separated stretch between the brackets, in source
\* order, each the trimmed stretch as a string, never a Number or a Boolean.
C14_BracketArrayLiteral ==
    (pc = "done" /\ Len(input) >= 2 /\ input[1] = "[" /\ input[Len(input)] = "]") =>
        LET inner == SubSeq(input, 2, Len(input) - 1)
            cuts == Cuts(inner)
        IN  /\ evaluated.type = "array"
            /\ IsArray(evaluated.value)
            /\ Len(evaluated.value.v) = Cardinality(cuts) - 1
            /\ \A i \in 1..(Cardinality(cuts) - 1) :
                   evaluated.value.v[i] =
                       Str(Trim(SubSeq(inner, NthOf(cuts, i) + 1, NthOf(cuts, i + 1) - 1)))

\* "[1, 7]" gives the strings "1" and "7"
C14_Witness ==
    /\ pc = "done"
    /\ input = Chars("[1, 7]")
    /\ evaluated.value = Arr(<<Str(Chars("1")), Str(Chars("7"))>>)


-----------------------------------------------------------------------------
(* Parser.read under several lists of comment markers *)

CommentLines ==
    {Chars(""), Chars(" "), Chars("; c"), Chars(" #c;d"), Chars("// c"),
     Chars("//a=1"), Chars("a=1"), Chars("a=1 ; c")}

MarkerLists ==
    {<<Chars(";")>>, <<Chars(";"), Chars("#")>>, <<Chars("#"), Chars(";")>>,
     <<Chars("//")>>, <<Chars("//"), Chars(";")>>}

InitComments ==
    InitParser(Files(CommentLines, MaxLines), MarkerLists, {"unset"}, {NoSchema})

SpecComments == InitComments /\ [][Next]_vars

\* String.prototype.trimStart
TrimStart(s) ==
    LET keep == {i \in 1..Len(s) : ~IsSpace(s[i])}
    IN  IF keep = {} THEN <<>> ELSE SubSeq(s, SetMin(keep), Len(s))

\* a blank line, or optional whitespace followed by a configured marker
IsBlankOrComment(line) ==
    \/ Trim(line) = <<>>
    \/ \E m \in 1..Len(commentWith) :
           SubSeq(TrimStart(line), 1, Len(commentWith[m])) = commentWith[m]

\* C5: when every line of the input is blank or a comment under the configured
\* markers, read keeps no line and parse returns the empty document and raises
\* nothing.
C5_OnlyCommentsGiveEmptyDocument ==
    (\A i \in 1..Len(file) : IsBlankOrComment(file[i])) =>
        /\ pc # "read" => clearLines = <<>>
        /\ pc # "error"
        /\ pc = "done" => o = EmptyObject


-----------------------------------------------------------------------------
(* Parser.read(input, {validationSchema}).parse() *)

\* a schema entry [kind, required], and one whose kind is a list of allowed values
Leaf(kind, required) == Arr(<<Str(Chars(kind)), Bool(required)>>)
OneOf(allowed, required) ==
    Arr(<<Arr([i \in 1..Len(allowed) |-> Str(Chars(allowed[i]))]), Bool(required)>>)
Schema1(prop, entry) == Obj(<< <<Chars(prop), entry>> >>)

SchemaLines ==
    {Chars(""), Chars("p=x"), Chars("p=1"), Chars("p=[a,b]"), Chars("p=a@b.co"),
     Chars("[p]"), Chars("q=1")}

LeafKinds ==
    {"string", "email", "url", "hex", "number", "boolean", "array", "section-header"}

Schemas ==
    {NoSchema}
    \cup {Schema1("p", Leaf(kind, required)) : kind \in LeafKinds, required \in BOOLEAN}
    \cup {Schema1("p", OneOf(<<"x", "y">>, required)) : required \in BOOLEAN}
    \cup {Schema1("p", EmptyObject)}
    \cup {Schema1("p", Schema1("q", Leaf("number", required))) : required \in BOOLEAN}
    \cup {Obj(<< <<Chars("q"), Leaf("number", FALSE)>>, <<Chars("p"), Leaf("string", TRUE)>> >>)}

InitSchema ==
    InitParser(Files(SchemaLines, MaxLines), {<<Chars(";")>>}, {"unset"}, Schemas)

SpecSchema == InitSchema /\ [][Next]_vars

\* parse has run validateSchema: it returned, or validateSchema threw
Validated ==
    /\ validationSchema # NoSchema
    /\ pc = "done" \/ (pc = "error" /\ thrown.type = "TypeError")

\* the top-level entries of the schema that are (kind, required) pairs
LeafEntries == {i \in 1..Len(validationSchema.v) : IsArray(validationSchema.v[i][2])}

\* the top-level entries of the schema that are nested schemas
NestedEntries ==
    {i \in 1..Len(validationSchema.v) : validationSchema.v[i][2].t = "object"}

\* C3: for a (kind, required) entry whose property is absent from the tree, a
\* "required" error is raised exactly when required is true; when required is
\* false no error at all is raised for the property.
C3_AbsentLeafProperty ==
    Validated =>
        \A i \in LeafEntries :
            LET prop == validationSchema.v[i][1]
                required == validationSchema.v[i][2].v[2].v
                first == \A j \in 1..(i - 1) : thrown.prop # validationSchema.v[j][1]
            IN  ~HasOwn(o, prop) =>
                    /\ (required /\ first) => thrown = TypeError("is required", prop)
                    /\ ~required => thrown.prop # prop

\* C9: for a nested-schema entry p a TypeError is raised unless the tree holds a
\* section (a plain mapping) at p; a scalar, an absent value and an array are
\* rejected.
C9_NestedSchemaNeedsSection ==
    Validated =>
        \A i \in NestedEntries :
            LET prop == validationSchema.v[i][1]
            IN  Prop(o, prop).t # "object" => thrown.type = "TypeError"


-----------------------------------------------------------------------------
(* The stringify engine: Stringify.toString *)

\* Stringify.#lineEnding when the constructor is given none: '\n'
LineEnding == <<"\n">>

\* the number of zeros that a string of digits starts with
LeadingZeros(s) ==
    LET other == {i \in 1..Len(s) : s[i] # "0"}
    IN  IF other = {} THEN Len(s) ELSE SetMin(other) - 1

\* `${n}` for a number of the model (below 1e21, or NaN): decimal notation from
\* 1e-6 on, exponent notation below
NumberToString(n) ==
    IF n.nan THEN Chars("NaN")
    ELSE IF n.frac = <<>> THEN IntToChars(n.int)
    ELSE IF n.int = 0 /\ LeadingZeros(n.frac) >= 6
    THEN LET digits == SubSeq(n.frac, LeadingZeros(n.frac) + 1, Len(n.frac))
         IN  <<digits[1]>>
                 \o (IF Len(digits) > 1 THEN <<".">> \o Tail(digits) ELSE <<>>)
                 \o Chars("e-") \o IntToChars(LeadingZeros(n.frac) + 1)
    ELSE IntToChars(n.int) \o <<".">> \o n.frac

\* `${value}` for the values that reach a template literal: string, number, boolean
TemplateString(value) ==
    CASE value.t = "string" -> value.v
      [] value.t = "number" -> NumberToString(value.v)
      [] value.t = "boolean" -> IF value.v THEN Chars("true") ELSE Chars("false")
      [] OTHER -> value.t

\* `${prop} = ${value}`
KeyValueLine(prop, value) == prop \o Chars(" = ") \o TemplateString(value)

\* the own enumerable properties that for-in visits: of an object, of an array
\* (its indices), of null (none)
ForIn(x) ==
    IF x.t = "object" THEN x.v
    ELSE IF x.t = "array" THEN [i \in 1..Len(x.v) |-> <<IntToChars(i - 1), x.v[i]>>]
    ELSE <<>>

\* the test that guards both lines.push calls; typeof is never 'object' for a
\* string, a number or a boolean, so its second disjunct adds nothing
NotPrintable(value) ==
    \/ TypeOf(value) \notin {"string", "number", "boolean"}
    \/ (TypeOf(value) = "object" /\ ~IsArray(value))

\* the for-in loop over the items of one section, from its i-th property on
RECURSIVE SectionItems(_, _, _)
SectionItems(ls, items, i) ==
    IF i > Len(items) THEN [lines |-> ls, thrown |-> NoError]
    ELSE IF NotPrintable(items[i][2])
    THEN [lines |-> ls, thrown |-> TypeError("must be a string or a number", items[i][1])]
    ELSE SectionItems(Append(ls, KeyValueLine(items[i][1], items[i][2])), items, i + 1)

\* one turn of eachSections
EachSection(ls, section) ==
    SectionItems(Append(ls, LineEnding \o <<"[">> \o section[1] \o <<"]">>),
                 ForIn(section[2]), 1)

\* ProduceLine with a slip: a section is written where it stands instead of being
\* queued until the scalars are out
ProduceLineInPlace(ls, secs, prop, value) ==
    IF TypeOf(value) = "object"
    THEN [lines |-> EachSection(ls, <<prop, value>>).lines, sections |-> secs,
          thrown |-> EachSection(ls, <<prop, value>>).thrown]
    ELSE IF NotPrintable(value)
    THEN [lines |-> ls, sections |-> secs,
          thrown |-> TypeError("must be a string or a number", prop)]
    ELSE [lines |-> Append(ls, KeyValueLine(prop, value)), sections |-> secs,
          thrown |-> NoError]

\* one turn of the for-in loop of produceLines
ProduceLine(ls, secs, prop, value) ==
    IF TypeOf(value) = "object"
    THEN [lines |-> ls, sections |-> Append(secs, <<prop, value>>), thrown |-> NoError]
    ELSE IF NotPrintable(value)
    THEN [lines |-> ls, sections |-> secs,
          thrown |-> TypeError("must be a string or a number", prop)]
    ELSE [lines |-> Append(ls, KeyValueLine(prop, value)), sections |-> secs,
          thrown |-> NoError]

\* `${lines.join(this.#lineEnding)}${this.#lineEnding}`
Output(ls) == Join(ls, LineEnding) \o LineEnding


-----------------------------------------------------------------------------
(* new Stringify(tree).toString() for the trees a caller can build *)

\* the most top-level properties of a tree
MaxProps == 2

\* the object that holds the given properties, set one after the other
RECURSIVE FromEntries(_)
FromEntries(entries) ==
    IF entries = <<>> THEN EmptyObject
    ELSE Put(FromEntries(SubSeq(entries, 1, Len(entries) - 1)),
             entries[Len(entries)][1], entries[Len(entries)][2])

TreeKeys == {Chars("a"), Chars("b"), Chars("s"), Chars("7")}

ScalarValues == {Str(Chars("x")), Num(1), Bool(TRUE)}

ArrayValue == Arr(<<Str(Chars("a")), Str(Chars("b"))>>)

SectionValues ==
    {EmptyObject,
     FromEntries(<< <<Chars("k"), Str(Chars("v"))>>, <<Chars("j"), Num(2)>> >>),
     FromEntries(<< <<Chars("k"), ArrayValue>> >>),
     FromEntries(<< <<Chars("k"), Null>> >>),
     FromEntries(<< <<Chars("k"), EmptyObject>> >>)}

TreeValues == ScalarValues \cup {ArrayValue, Null, Undefined} \cup SectionValues

\* the sequences of properties with distinct keys that a caller may insert
Insertions ==
    UNION {{e \in [1..n -> TreeKeys \X TreeValues] :
               \A i, j \in 1..n : i # j => e[i][1] # e[j][1]} : n \in 0..MaxProps}

InitStringify ==
    /\ inserted \in Insertions
    /\ originalContent = FromEntries(inserted)
    /\ lines = <<>>
    /\ sections = <<>>
    /\ text = <<>>
    /\ pc = "produceLines"
    /\ pos = 0
    /\ thrown = NoError
    /\ IdleParser
    /\ IdleEval

\* produceLines: one turn of its for-in loop
ProduceLines ==
    /\ pc = "produceLines"
    /\ pos < Len(ForIn(originalContent))
    /\ LET entry == ForIn(originalContent)[pos + 1]
           step == ProduceLine(lines, sections, entry[1], entry[2])
       IN  /\ lines' = step.lines
           /\ sections' = step.sections
           /\ thrown' = step.thrown
           /\ pc' = IF step.thrown = NoError THEN "produceLines" ELSE "error"
    /\ pos' = pos + 1
    /\ UNCHANGED <<inserted, originalContent, text, parserVars, evalVars>>

\* the end of the for-in loop: eachSections(sections.length - 1)
StartSections ==
    /\ pc = "produceLines"
    /\ pos = Len(ForIn(originalContent))
    /\ pc' = "eachSections"
    /\ pos' = 0
    /\ UNCHANGED <<thrown, stringifyVars, parserVars, evalVars>>

\* eachSections: one turn
EachSections ==
    /\ pc = "eachSections"
    /\ pos <= Len(sections) - 1
    /\ LET step == EachSection(lines, sections[pos + 1])
       IN  /\ lines' = step.lines
           /\ thrown' = step.thrown
           /\ pc' = IF step.thrown = NoError THEN "eachSections" ELSE "error"
    /\ pos' = pos + 1
    /\ UNCHANGED <<inserted, originalContent, sections, text, parserVars, evalVars>>

\* toString returns
Return ==
    /\ pc = "eachSections"
    /\ pos > Len(sections) - 1
    /\ text' = Output(lines)
    /\ pc' = "done"
    /\ UNCHANGED <<inserted, originalContent, lines, sections, pos, thrown,
                   parserVars, evalVars>>

NextStringify == ProduceLines \/ StartSections \/ EachSections \/ Return

SpecStringify == InitStringify /\ [][NextStringify]_vars


-----------------------------------------------------------------------------
(* Claims about Stringify.toString *)

IsScalar(value) == value.t \in {"string", "number", "boolean"}

\* a plain mapping whose values all satisfy Ok
IsSectionOf(value, Ok(_)) ==
    value.t = "object" /\ \A i \in 1..Len(value.v) : Ok(value.v[i][2])

\* the default textual join of an array: its elements, separated by commas
DefaultJoin(array) ==
    Join([i \in 1..Len(array.v) |-> TemplateString(array.v[i])], <<",">>)

\* `key = value`, an array value being written as its default join
ClaimedLine(prop, value) ==
    IF IsArray(value) THEN prop \o Chars(" = ") \o DefaultJoin(value)
    ELSE KeyValueLine(prop, value)

RECURSIVE Flatten(_)
Flatten(seqs) == IF seqs = <<>> THEN <<>> ELSE Head(seqs) \o Flatten(Tail(seqs))

\* the lines of text the claims promise for the properties `entries`, taken in
\* the order given: the properties that are no mappings first, then for each
\* mapping an empty line, [name] and its properties
ClaimedText(entries) ==
    LET direct == SelectSeq(entries, LAMBDA e : e[2].t # "object")
        queued == SelectSeq(entries, LAMBDA e : e[2].t = "object")
        Block(e) == <<(<<>>), <<"[">> \o e[1] \o <<"]">>>>
                    \o [i \in 1..Len(e[2].v) |-> ClaimedLine(e[2].v[i][1], e[2].v[i][2])]
    IN  Join([i \in 1..Len(direct) |-> ClaimedLine(direct[i][1], direct[i][2])]
                 \o Flatten([i \in 1..Len(queued) |-> Block(queued[i])]),
             LineEnding) \o LineEnding

ScalarOrArray(value) == IsScalar(value) \/ IsArray(value)

\* C7: an array-valued property, at the top level or in a section, is written as
\* one `key = <default join>` line in its scope, and nothing is raised.
C7_ArraysAreJoined ==
    (\A i \in 1..Len(inserted) :
         ScalarOrArray(inserted[i][2]) \/ IsSectionOf(inserted[i][2], ScalarOrArray)) =>
        /\ pc # "error"
        /\ pc = "done" => text = ClaimedText(ForIn(originalContent))

\* the names of the properties whose value may not be written: at the top level
\* anything but a scalar or a plain mapping, in a section anything but a scalar
Unwritable ==
    {inserted[i][1] : i \in {j \in 1..Len(inserted) :
                                ~IsScalar(inserted[j][2]) /\ inserted[j][2].t # "object"}}
    \cup UNION {{inserted[i][2].v[k][1] :
                    k \in {n \in 1..Len(inserted[i][2].v) : ~IsScalar(inserted[i][2].v[n][2])}} :
                i \in {j \in 1..Len(inserted) : inserted[j][2].t = "object"}}

\* C8: when some property value is neither a string, a number, a boolean nor, at
\* the top level, a plain mapping, toString raises a TypeError that names such a
\* property.
C8_TypeErrorForUnwritable ==
    (Unwritable # {} /\ pc \in {"done", "error"}) =>
        /\ pc = "error"
        /\ thrown.type = "TypeError"
        /\ thrown.prop \in Unwritable

\* a tree of scalars and one-level sections of scalars
IsPlainTree ==
    \A i \in 1..Len(inserted) :
        IsScalar(inserted[i][2]) \/ IsSectionOf(inserted[i][2], IsScalar)

\* C10 as stated: the scalars, then the sections, both in insertion order.
C10_InsertionOrder ==
    IsPlainTree =>
        /\ pc # "error"
        /\ pc = "done" => text = ClaimedText(inserted)

\* C10, amended: the scalars, then the sections, both in the order in which
\* for-in enumerates the tree: keys that are array indices first, ascending,
\* then the other keys in insertion order.
C10_EnumerationOrder ==
    IsPlainTree =>
        /\ pc # "error"
        /\ pc = "done" => text = ClaimedText(ForIn(originalContent))

\* a section inserted before a scalar: the scalar line comes first in the text
C10_Witness ==
    /\ inserted = << <<Chars("s"), FromEntries(<< <<Chars("k"), Str(Chars("v"))>>,
                                                  <<Chars("j"), Num(2)>> >>)>>,
                     <<Chars("a"), Str(Chars("x"))>> >>
    /\ pc = "done"
    /\ text = Chars("a = x\n\n[s]\nk = v\nj = 2\n")


-----------------------------------------------------------------------------
(* Parser.read(input).parse({aliases}) *)

Alias(from, to) == <<Chars(from), Str(Chars(to))>>

\* a rename, two renames, two names with one target, a chain, a name that is its
\* own alias, and a target that another line of the input uses
AliasTables ==
    {Obj(<<Alias("old", "new")>>),
     Obj(<<Alias("old", "new"), Alias("b", "c")>>),
     Obj(<<Alias("old", "new"), Alias("b", "new")>>),
     Obj(<<Alias("old", "b"), Alias("b", "c")>>),
     Obj(<<Alias("old", "old")>>),
     Obj(<<Alias("nested", "n")>>)}

\* properties at the top level and in sections, a section that bears an aliased
\* name, and a property that bears the name of a member of Object.prototype
AliasLines ==
    {Chars("old=1"), Chars("b=2"), Chars("[nested]"), Chars("[old]"),
     Chars("new=3"), Chars("toString=x")}

InitAliases ==
    InitCall(Files(AliasLines, MaxLines), {<<Chars(";")>>}, {"unset"}, {NoSchema},
             AliasTables, {"Parser.read"}, {TRUE})

SpecAliases == InitAliases /\ [][Next]_vars

\* parse is about to return: eachRow has consumed every row
AtParseReturn == pc = "parse" /\ pos > Len(clearLines) - 1

\* the names of a mapping and of the mappings inside it
RECURSIVE NamesIn(_)
NamesIn(x) ==
    IF x.t # "object" THEN {}
    ELSE Range(OwnKeys(x)) \cup UNION {NamesIn(x.v[i][2]) : i \in 1..Len(x.v)}

TableKeys == Range(OwnKeys(aliases))
Target(k) == Get(aliases, k).v

\* what the claim promises of a mapping and its rewritten form: a property named
\* in the table is found under its alias and not under its old name, any other
\* property is found where it was, and a section is rewritten in the same way
RECURSIVE Rewritten(_, _)
Rewritten(before, after) ==
    LET Same(x, y) == IF x.t = "object" THEN y.t = "object" /\ Rewritten(x, y)
                      ELSE x = y
    IN  \A k \in Range(OwnKeys(before)) :
            IF k \in TableKeys
            THEN /\ HasOwn(after, Target(k))
                 /\ Same(Get(before, k), Get(after, Target(k)))
                 /\ ~HasOwn(after, k)
            ELSE /\ HasOwn(after, k)
                 /\ Same(Get(before, k), Get(after, k))

\* C11: when parse is given an alias table whose targets are distinct from one
\* another and from every name of the tree, the returned tree holds every
\* property named in the table under its alias with the value it would have had,
\* no longer under its old name, at the top level and in every section, and holds
\* every other property unchanged.
C11_AliasRewriting ==
    [][(/\ AtParseReturn
        /\ aliases # NoAliases
        /\ \A k \in TableKeys : Target(k) \notin NamesIn(results)
        /\ \A j, k \in TableKeys : j # k => Target(j) # Target(k))
       => Rewritten(EvalOutputObject(results), o')]_vars

\* the place of an own key in the enumeration order of a mapping
KeyPlace(x, k) == CHOOSE i \in 1..Len(x.v) : x.v[i][1] = k

\* what single-step renaming promises of a mapping and its rewritten form: the
\* value of a property named in the table is found under its alias, unless a
\* later property of the mapping is renamed to the same alias
RECURSIVE RenamedOnce(_, _)
RenamedOnce(before, after) ==
    LET Same(x, y) == IF x.t = "object" THEN y.t = "object" /\ RenamedOnce(x, y)
                      ELSE x = y
        Overtaken(k) == \E j \in Range(OwnKeys(before)) \cap TableKeys :
                            /\ KeyPlace(before, j) > KeyPlace(before, k)
                            /\ Target(j) = Target(k)
    IN  \A k \in Range(OwnKeys(before)) \cap TableKeys :
            ~Overtaken(k) =>
                /\ HasOwn(after, Target(k))
                /\ Same(Get(before, k), Get(after, Target(k)))

\* C15: applyAliases renames in a single step and loses nothing: in every mapping
\* of the tree, the value of each property named in the alias table is found
\* under its alias afterwards (unless a later property of that mapping is renamed
\* to the same alias), also when the alias is itself a key of the table or
\* equals the old name.
C15_SingleStepRenaming ==
    [][(AtParseReturn /\ aliases # NoAliases) => RenamedOnce(results, results')]_vars


-----------------------------------------------------------------------------
(* index.ts: parse(input, options), parseFileSync(path, options) and           *)
(* parseFile(path, options), next to Parser.read(input, options).parse(options) *)

IndexLines == {Chars("p=1"), Chars("p=x"), Chars("a b=2"), Chars("; c"), Chars("[s]")}

IndexSchemas ==
    {NoSchema, Schema1("p", Leaf("number", TRUE)), Schema1("p", Leaf("string", FALSE))}

InitIndex ==
    InitCall(Files(IndexLines, MaxLines), {<<Chars(";")>>}, {"unset", "allow"},
             IndexSchemas, {NoAliases, Obj(<<Alias("p", "q")>>)}, EntryPoints, BOOLEAN)

SpecIndex == InitIndex /\ [][Next]_vars

\* eachRow from position p on: the first error, or the results of the last row
RECURSIVE RunRows(_, _, _, _, _)
RunRows(res, section, rows, policy, p) ==
    IF p > Len(rows) - 1 THEN [results |-> res, thrown |-> NoError]
    ELSE LET step == EachRow(res, section, rows[p + 1], policy, p)
         IN  IF step.thrown # NoError
             THEN [results |-> step.results, thrown |-> step.thrown]
             ELSE RunRows(step.results, step.useSection, rows, policy, p + 1)

\* Parser.read(content, {commentWith, validationSchema})
\*       .parse({keysWithSpaces, aliases}): the tree, or the error
ReadThenParse(content, markers, schema, policy, table) ==
    LET rows == RunRows(EmptyObject, <<>>, ClearLines(content, markers), policy, 0)
        tree == EvalOutputObject(IF table # NoAliases
                                 THEN ApplyAliases(rows.results, table)
                                 ELSE rows.results)
        invalid == IF schema = NoSchema THEN NoError ELSE ValidateSchema(tree, schema)
    IN  IF rows.thrown # NoError THEN [tree |-> EmptyObject, thrown |-> rows.thrown]
        ELSE IF invalid # NoError THEN [tree |-> EmptyObject, thrown |-> invalid]
        ELSE [tree |-> tree, thrown |-> NoError]

\* C12: parse, parseFileSync and parseFile, given the content (of a file that
\* exists) and options, return the tree or raise the error that
\* Parser.read(content, options).parse(options) returns or raises for the same
\* content and options, validationSchema included.
C12_WrappersAgreeWithParser ==
    (pc \in {"done", "error"} /\ entryPoint # "Parser.read" /\ thrown.type # "ReferenceError")
        => [tree |-> IF thrown = NoError THEN o ELSE EmptyObject, thrown |-> thrown]
               = ReadThenParse(file, commentWith, validationSchema, keysWithSpaces,
                               aliases)


-----------------------------------------------------------------------------
(* Parser.parse on inputs with several sections *)

\* the longest input of section headers and assignments, in rows
MaxRows == 4

\* a top-level key that a header names later, two keys, two sections, and a
\* header whose name contains whitespace
SectionLines ==
    {Chars("s=1"), Chars("a=1"), Chars("b=2"), Chars("[s]"), Chars("[t]"),
     Chars("[s t]")}

InitSections ==
    InitParser(Files(SectionLines, MaxRows), {<<Chars(";")>>},
               {"unset", "ignore", "allow"}, {NoSchema})

SpecSections == InitSections /\ [][Next]_vars

\* the positions (1-based) among the first n kept lines of the accepted section
\* headers that bear `name`
HeadersOf(name, n) ==
    {i \in 1..n : /\ IsSectionRow(clearLines[i])
                  /\ Accepted(clearLines[i])
                  /\ SectionName(clearLines[i]) = name}

\* the keys that the accepted assignments at the positions from..to assign
KeysAssigned(from, to) ==
    {RowKey(clearLines[i]) :
        i \in {j \in from..to : IsKeyRow(clearLines[j]) /\ Accepted(clearLines[j])}}

\* C16: once parse has passed an accepted header [name], the document holds a
\* section at name, whatever name held before, and that section holds only keys
\* assigned after the last header that bears the name; so it is when parse
\* returns.
C16_SectionRedeclaration ==
    pc \in {"parse", "done"} =>
        LET tree == IF pc = "done" THEN o ELSE results
            passed == IF pc = "done" THEN Len(clearLines) ELSE pos
        IN  \A h \in 1..passed :
                (IsSectionRow(clearLines[h]) /\ Accepted(clearLines[h])) =>
                    LET name == SectionName(clearLines[h])
                        last == SetMax(HeadersOf(name, passed))
                    IN  /\ Get(tree, name).t = "object"
                        /\ Range(OwnKeys(Get(tree, name))) \subseteq
                               KeysAssigned(last + 1, passed)

\* [s] holding a, then [s] again: the second s holds b only
C16_Witness ==
    /\ clearLines = <<Chars("[s]"), Chars("a=1"), Chars("[s]"), Chars("b=2")>>
    /\ pc = "done"
    /\ o = Obj(<< <<Chars("s"), Obj(<< <<Chars("b"), Num(2)>> >>)>> >>)

\* C17: an accepted section header leaves a section active, no row makes the top
\* level active again, and while a section is active an accepted key=value row
\* changes the entry for its key in that section and nothing else: the top-level
\* properties, the other sections and the other keys of the section stay.
C17_KeyRowFrame ==
    [][(pc = "parse" /\ pos < Len(clearLines) /\ pc' = "parse") =>
        LET row == clearLines[pos + 1]
            key == RowKey(row)
            before == Get(results, useSection)
            after == Get(results', useSection)
        IN  /\ (IsSectionRow(row) /\ Accepted(row)) =>
                   (useSection' = SectionName(row) /\ useSection' # <<>>)
            /\ useSection # <<>> => useSection' # <<>>
            /\ (useSection # <<>> /\ IsKeyRow(row) /\ Accepted(row)) =>
                   /\ useSection' = useSection
                   /\ after.t = "object"
                   /\ HasOwn(after, key)
                   /\ \A k \in AllKeys(before, after) \ {key} :
                          HasOwn(before, k) /\ HasOwn(after, k)
                              /\ Get(after, k) = Get(before, k)
                   /\ \A k \in AllKeys(results, results') \ {useSection} :
                          HasOwn(results, k) /\ HasOwn(results', k)
                              /\ Get(results', k) = Get(results, k)
    ]_vars

\* a key assigned at the top level and again inside a section: both are kept
C17_Witness ==
    /\ clearLines = <<Chars("a=1"), Chars("[s]"), Chars("a=1"), Chars("b=2")>>
    /\ pc = "done"
    /\ o = Obj(<< <<Chars("a"), Num(1)>>,
                  <<Chars("s"), Obj(<< <<Chars("a"), Num(1)>>, <<Chars("b"), Num(2)>> >>)>> >>)


-----------------------------------------------------------------------------
(* Parser.read(new Stringify(Parser.read(input).parse()).toString()).parse() *)

\* scalars of every type, an empty value, a reading that Number shortens, a
\* small number, a section, and a key and a value that hold brackets
RoundTripLines ==
    {Chars(""), Chars("a=1"), Chars("a=x"), Chars("a=true"), Chars("a=1.50"),
     Chars("b=0x1F"), Chars("b="), Chars("[s]"), Chars("b=.0000001"),
     Chars("[k=v]=z")}

InitRoundTrip ==
    InitParser(Files(RoundTripLines, MaxLines), {<<Chars(";")>>}, {"unset"}, {NoSchema})

\* new Stringify(tree) on the tree that the first parse returned, and the start
\* of toString
StringifyTree ==
    /\ pc = "done"
    /\ reads = 1
    /\ text = <<>>
    /\ originalContent' = o
    /\ inserted' = o.v
    /\ lines' = <<>>
    /\ sections' = <<>>
    /\ pc' = "produceLines"
    /\ pos' = 0
    /\ UNCHANGED <<text, thrown, parserVars, evalVars>>

\* Parser.read on the text that toString returned: the split into lines (the text
\* holds no '\r\n'), then a parser that starts afresh
ReadText ==
    /\ pc = "done"
    /\ reads = 1
    /\ text # <<>>
    /\ file' = Split(text, "\n")
    /\ pc' = "read"
    /\ pos' = 0
    /\ clearLines' = <<>>
    /\ results' = EmptyObject
    /\ useSection' = <<>>
    /\ o' = EmptyObject
    /\ UNCHANGED <<commentWith, keysWithSpaces, validationSchema, aliases, entryPoint,
                   exists, reads, thrown, evalVars, stringifyVars>>

NextRoundTrip ==
    \/ Read \/ ParseRow \/ ParseReturn
    \/ StringifyTree \/ ProduceLines \/ StartSections \/ EachSections \/ Return
    \/ ReadText

SpecRoundTrip == InitRoundTrip /\ [][NextRoundTrip]_vars

\* a string, a boolean or a finite number
IsFiniteScalar(value) ==
    value.t \in {"string", "boolean"} \/ (value.t = "number" /\ ~value.v.nan)

\* equal as mappings: the same keys with the same values, in any order
RECURSIVE SameTree(_, _)
SameTree(x, y) ==
    IF x.t = "object" /\ y.t = "object"
    THEN /\ Range(OwnKeys(x)) = Range(OwnKeys(y))
         /\ \A k \in Range(OwnKeys(x)) : SameTree(Get(x, k), Get(y, k))
    ELSE x = y

\* C13: when the tree t that parse returned holds only strings, finite numbers
\* and booleans, at the top level and in its sections, toString accepts t, parse
\* accepts the text of t, and parsing that text returns a tree equal to t.
C13_RoundTrip ==
    (\A i \in 1..Len(originalContent.v) :
         \/ IsFiniteScalar(originalContent.v[i][2])
         \/ IsSectionOf(originalContent.v[i][2], IsFiniteScalar)) =>
        /\ thrown.type # "TypeError"
        /\ reads = 2 => pc # "error"
        /\ (reads = 2 /\ pc = "done") => SameTree(o, originalContent)

====
